---- MODULE Spec2Model ----
(***************************************************************************)
(* Model of the spegel registry front-end and mirror proxy                 *)
(* (internal/registry/registry.go).                                        *)
(*                                                                         *)
(* A cluster of nodes each runs registryHandler.  reqs is the chain of     *)
(* handler invocations that are live for one client request: reqs[1] is    *)
(* the invocation serving the client, reqs[i+1] the invocation on a peer   *)
(* that serves the request reqs[i] is reverse-proxying.  Only the innermost *)
(* invocation runs; the outer ones are blocked in proxy.ServeHTTP, while    *)
(* their resolver and their resolve-timeout clock keep running.            *)
(*                                                                         *)
(* Strings that the code cuts or concatenates are sequences of tokens.     *)
(***************************************************************************)
EXTENDS Integers, Sequences, FiniteSets, TLC

\* ------------------------------------------------------------------ bounds
\* resolveRetries of the Registry: the most candidates the resolver yields.
resolveRetries == 2
\* Longest chain of handler invocations the model follows.
MaxDepth == 3

\* --------------------------------------------------------------- constants
MirroredHeaderKey == "X-Spegel-Mirrored"
StatusOK == 200
StatusNotFound == 404
StatusInternalServerError == 500

ErrTimeout == "could not resolve mirror for key"
ErrExhausted == "mirror resolution has been exhausted"
ErrUrlParse == "url parse error"
ErrResolve == "router resolve error"
ErrInvalidPath == "distribution path could not be parsed"
ErrNotFound == "not found"

\* ------------------------------------------------------------------ inputs
Nodes == {"n1", "n2"}
\* A candidate on the stream: the URL of a node, a URL nobody listens on, or
\* a string url.Parse rejects.
DownUrl == "http://down"
BadUrl == "://bad"
Candidates == Nodes \cup {DownUrl, BadUrl}

Methods == {"GET", "HEAD", "POST"}
\* The value of the X-Spegel-Mirrored request header; "" is the absent header
\* (Header.Get returns "" for it).
HeaderValues == {"", "true", "1"}

ManifestDigest == "sha256:m1"
BlobDigest == "sha256:b1"
Digests == {ManifestDigest, BlobDigest}

\* The ns query parameter, as tokens; <<>> is the absent parameter.
NsValues == {<<>>, <<"docker.io">>, <<"foo.bar", ":", "5000">>}

\* URL paths, as segments.
Paths ==
    { <<"v2">>,
      <<"v2", "img", "manifests", "latest">>,
      <<"v2", "img", "manifests", "v1">>,
      <<"v2", "img", "manifests", ManifestDigest>>,
      <<"v2", "img", "blobs", BlobDigest>>,
      <<"v2", "img", "blobs", "v1">> }

\* ------------------------------------------------------------ string tools
\* Index of the first occurrence of sep in s, 0 if there is none.
IndexOf(s, sep) ==
    IF \E i \in 1..Len(s) : s[i] = sep
    THEN CHOOSE i \in 1..Len(s) : s[i] = sep /\ \A j \in 1..(i - 1) : s[j] # sep
    ELSE 0

\* strings.Cut(s, sep): s around the first occurrence of sep.
Cut(s, sep) ==
    LET i == IndexOf(s, sep) IN
    IF i = 0
    THEN [before |-> s, after |-> <<>>, found |-> FALSE]
    ELSE [before |-> SubSeq(s, 1, i - 1), after |-> SubSeq(s, i + 1, Len(s)), found |-> TRUE]

RECURSIVE Join(_, _)
\* strings.Join of segments with sep between them, as tokens.
Join(segs, sep) ==
    IF Len(segs) = 0 THEN <<>>
    ELSE IF Len(segs) = 1 THEN <<segs[1]>>
    ELSE <<segs[1], sep>> \o Join(Tail(segs), sep)

\* ------------------------------------------------------------- path parser
ReferenceTypeManifest == "manifest"
ReferenceTypeBlob == "blob"

\* oci.ParsePathComponents(ns, path): (ref, dgst, refType, err).
\* /v2/{name}/manifests/{reference} and /v2/{name}/blobs/{digest}; a tag
\* reference gives ref = ns/name:tag (name:tag when ns is empty).
ParsePathComponents(ns, path) ==
    LET n == Len(path)
        bad == [ref |-> <<>>, dgst |-> "", refType |-> "", err |-> TRUE]
    IN
    IF n < 4 \/ path[1] # "v2" THEN bad
    ELSE
      LET name == Join(SubSeq(path, 2, n - 2), "/")
          last == path[n]
          qualified == IF ns = <<>> THEN name ELSE ns \o <<"/">> \o name
      IN
      IF path[n - 1] = "manifests" THEN
          IF last \in Digests
          THEN [ref |-> <<>>, dgst |-> last, refType |-> ReferenceTypeManifest, err |-> FALSE]
          ELSE [ref |-> qualified \o <<":", last>>, dgst |-> "",
                refType |-> ReferenceTypeManifest, err |-> FALSE]
      ELSE IF path[n - 1] = "blobs" THEN
          IF last \in Digests
          THEN [ref |-> <<>>, dgst |-> last, refType |-> ReferenceTypeBlob, err |-> FALSE]
          ELSE bad
      ELSE bad

\* ------------------------------------------------------------ local stores
\* The content each node's OCI store holds: n1 holds nothing, n2 holds the
\* image img with its manifest and its blob, tagged v1 and latest.
StoreDigests(node) == IF node = "n2" THEN Digests ELSE {}

TaggedRefs ==
    { ns \o (IF ns = <<>> THEN <<>> ELSE <<"/">>) \o <<"img", ":", t>> :
        ns \in NsValues, t \in {"v1", "latest"} }

\* ociClient.Resolve(ref): the digest of the image named ref, err if unknown.
OciResolve(node, ref) ==
    IF node = "n2" /\ ref \in TaggedRefs
    THEN [dgst |-> ManifestDigest, err |-> FALSE]
    ELSE [dgst |-> "", err |-> TRUE]

\* ociClient.GetBlob(dgst): bytes and media type, err if missing.
GetBlob(node, dgst) ==
    IF dgst \in StoreDigests(node)
    THEN [b |-> <<dgst>>, mediaType |-> "application/vnd.oci.image.manifest.v1+json", err |-> FALSE]
    ELSE [b |-> <<>>, mediaType |-> "", err |-> TRUE]

\* ociClient.GetSize(dgst): size of the blob, err if missing.
GetSize(node, dgst) ==
    IF dgst \in StoreDigests(node)
    THEN [size |-> 1, err |-> FALSE]
    ELSE [size |-> 0, err |-> TRUE]

\* ociClient.WriteBlob(writer, dgst): the bytes streamed to the writer.
WriteBlob(node, dgst) == <<dgst>>

\* ------------------------------------------------------------------- state
\* reqs: the chain of live handler invocations, innermost last.
\* resolveLatestTag: Registry.resolveLatestTag.
\* walk: one run of the image walk of the OCI store adapter.
\* mirrorCfg: the registry config path and the runs of the mirror-config writer.
VARIABLES reqs, resolveLatestTag, walk, mirrorCfg

vars == <<reqs, resolveLatestTag, walk, mirrorCfg>>

\* The mirror-config writer is not in use.
NoMirrorCfg == [pc |-> "idle"]

\* No image walk is running.
NoWalk == [pc |-> "idle"]

NoHeaders == [ct |-> "", cl |-> -1, dcd |-> ""]

\* Registry.localAddr of a node: the address its own clients use; a node's
\* URL stands for its address.
LocalAddr(node) == node

\* The Host of a request: the address of the node it is sent to, or another.
Hosts == Nodes

\* A handler invocation (gin.Context plus the locals of handleMirror) as it
\* is when the request arrives at node.
NewRequest(node, method, path, ns, header, host) ==
    [ node |-> node, method |-> method, path |-> path, ns |-> ns,
      host |-> host,           \* c.Request.Host
      counted |-> <<>>,        \* labels of the increments of mirrorRequestsTotal
      arrived |-> header,      \* X-Spegel-Mirrored as the request arrived
      header |-> header,       \* c.Request.Header[X-Spegel-Mirrored]
      pc |-> "start",
      handler |-> "",          \* c.Get("handler")
      key |-> <<>>,
      deadline |-> "none",     \* resolveCtx: none, armed, fired
      chNil |-> FALSE,         \* mirrorCh is nil (Resolve returned an error)
      mirrorCh |-> <<>>,       \* candidates yielded and not yet received
      chClosed |-> FALSE,
      yielded |-> 0,
      mirror |-> "",           \* the candidate under attempt
      succeeded |-> FALSE,
      status |-> StatusOK,     \* c.Writer.Status(), gin's default is 200
      written |-> FALSE,       \* the status line is committed
      headers |-> NoHeaders,   \* response headers
      body |-> <<>>,           \* response body bytes
      pending |-> <<>>,        \* peer body still to be copied
      sources |-> <<>>,        \* peers whose response was written to the client
      errors |-> <<>>,         \* c.Errors
      outcome |-> "",
      resolveCalls |-> 0,      \* calls of router.Resolve
      taken |-> <<>>,          \* candidates received from mirrorCh
      attempts |-> <<>>,       \* candidates handed to a reverse proxy
      storeOps |-> <<>>,       \* calls on ociClient
      statusSets |-> <<>>,     \* status codes the handler asked for
      lateTakes |-> 0,         \* candidates received after the deadline fired
      deadlineAt |-> "",       \* pc at which the deadline fired
      deadlineAttempt |-> 0,   \* number of attempts started when it fired
      gone |-> FALSE,          \* the client has disconnected (c.Request's context is done)
      goneAt |-> "",           \* pc at which it disconnected
      goneTaken |-> 0,         \* candidates received when it disconnected
      goneAttempts |-> 0,      \* attempts started when it disconnected
      inflight |-> 0,          \* calls of proxy.ServeHTTP that have not returned
      yieldedSeq |-> <<>> ]    \* every candidate the resolver has sent, in order

Init ==
    /\ walk = NoWalk
    /\ mirrorCfg = NoMirrorCfg
    /\ resolveLatestTag \in BOOLEAN
    /\ \E node \in Nodes, method \in Methods, path \in Paths, ns \in NsValues,
          header \in HeaderValues, host \in Hosts :
          reqs = << NewRequest(node, method, path, ns, header, host) >>

Top == Len(reqs)

\* ------------------------------------------------------- gin response writer
\* c.Status(code): sets the status unless the status line is committed.
SetStatus(r, code) ==
    [r EXCEPT !.status = IF r.written THEN @ ELSE code,
              !.statusSets = Append(@, code)]

\* c.AbortWithStatus(code): c.Status(code), then WriteHeaderNow.
AbortWithStatus(r, code) ==
    [SetStatus(r, code) EXCEPT !.written = TRUE]

\* c.AbortWithError(code, err): AbortWithStatus(code) and c.Error(err).
AbortWithError(r, code, err) ==
    [AbortWithStatus(r, code) EXCEPT !.errors = Append(@, err)]

\* Registry.isExternalRequest
isExternalRequest(r) == r.host # LocalAddr(r.node)

\* Mutant of metricsHandler: the handler key is not looked at.
metricsHandlerAnyHandler(r) ==
    [r EXCEPT !.counted = Append(@,
        [registry |-> r.ns,
         cacheType |-> IF r.status # StatusOK THEN "miss" ELSE "hit",
         sourceType |-> IF isExternalRequest(r) THEN "external" ELSE "internal"])]

\* Registry.metricsHandler after c.Next(): one increment of
\* mirrorRequestsTotal if the handler key is "mirror".
metricsHandler(r) ==
    IF r.handler # "mirror" THEN r
    ELSE [r EXCEPT !.counted = Append(@,
            [registry |-> r.ns,
             cacheType |-> IF r.status # StatusOK THEN "miss" ELSE "hit",
             sourceType |-> IF isExternalRequest(r) THEN "external" ELSE "internal"])]

\* The handler is aborted by a panic (http.ErrAbortHandler): the response
\* ends as it is and nothing after c.Next() runs.
Abort(r, outcome) == [r EXCEPT !.pc = "done", !.outcome = outcome, !.written = TRUE]

\* registryHandler returns: the response is complete and its status line
\* final, and metricsHandler goes on after c.Next().
Return(r, outcome) ==
    metricsHandler([r EXCEPT !.pc = "done", !.outcome = outcome, !.written = TRUE])

Err(msg) == [msg |-> msg, key |-> <<>>]

\* ------------------------------------------------------------ local serving
\* Registry.handleManifest
handleManifest(r, dgst) ==
    LET got == GetBlob(r.node, dgst)
        r1 == [r EXCEPT !.handler = "manifest", !.storeOps = Append(@, "GetBlob")]
        r2 == [r1 EXCEPT !.headers = [ct |-> got.mediaType, cl |-> Len(got.b), dcd |-> dgst]]
    IN
    IF got.err THEN Return(AbortWithError(r1, StatusNotFound, Err(ErrNotFound)), "local")
    ELSE IF r.method = "HEAD" THEN Return(r2, "local")
    ELSE Return([r2 EXCEPT !.body = got.b, !.written = TRUE], "local")

\* Mutant of handleBlob: the method is not looked at, HEAD streams the blob too.
handleBlobHeadStreams(r, dgst) ==
    LET got == GetSize(r.node, dgst)
        r1 == [r EXCEPT !.handler = "blob", !.storeOps = Append(@, "GetSize")]
        r2 == [r1 EXCEPT !.headers = [ct |-> "", cl |-> got.size, dcd |-> dgst]]
    IN
    IF got.err THEN Return(AbortWithError(r1, StatusInternalServerError, Err(ErrNotFound)), "local")
    ELSE Return([r2 EXCEPT !.storeOps = Append(@, "WriteBlob"),
                           !.body = WriteBlob(r.node, dgst), !.written = TRUE], "local")

\* Registry.handleBlob
handleBlob(r, dgst) ==
    LET got == GetSize(r.node, dgst)
        r1 == [r EXCEPT !.handler = "blob", !.storeOps = Append(@, "GetSize")]
        r2 == [r1 EXCEPT !.headers = [ct |-> "", cl |-> got.size, dcd |-> dgst]]
    IN
    IF got.err THEN Return(AbortWithError(r1, StatusInternalServerError, Err(ErrNotFound)), "local")
    ELSE IF r.method = "HEAD" THEN Return(r2, "local")
    ELSE Return([r2 EXCEPT !.storeOps = Append(@, "WriteBlob"),
                           !.body = WriteBlob(r.node, dgst), !.written = TRUE], "local")

\* ------------------------------------------------------------- mirror proxy
\* Registry.handleMirror up to the select loop: arm the resolve timeout and
\* call router.Resolve, which answers with a channel or with an error (and a
\* nil channel).  The error is reported and the loop is entered all the same.
handleMirror(r, key, resolveErr) ==
    LET r1 == [r EXCEPT !.handler = "mirror", !.key = key, !.deadline = "armed",
                        !.resolveCalls = @ + 1, !.chNil = resolveErr, !.pc = "select"]
    IN
    IF resolveErr
    THEN AbortWithError(r1, StatusInternalServerError, Err(ErrResolve))
    ELSE r1

\* --------------------------------------------------------------- front-end
\* Mutant of IsPullMethod: the method is not looked at.
IsPullMethodAny(method) == TRUE

\* Only GET and HEAD are dealt with.
IsPullMethod(method) == method = "GET" \/ method = "HEAD"

\* The latest gate: _, tag, _ := strings.Cut(ref, ":"); tag == "latest".
LatestGate(latestTag, ref) ==
    /\ ~latestTag
    /\ ref # <<>>
    /\ Cut(ref, ":").after = <<"latest">>

\* Mutant of NotMirrored: the header is not looked at.
NotMirroredUnchecked(header) == TRUE

\* Mutant of NotMirrored: the presence of the header is what counts.
NotMirroredByPresence(header) == header = ""

\* c.Request.Header.Get(MirroredHeaderKey) != "true"
NotMirrored(header) == header # "true"

\* Mutant of SetMirroredHeader: the header is left as it arrived.
SetMirroredHeaderForgotten(header) == header

\* c.Request.Header.Set(MirroredHeaderKey, "true")
SetMirroredHeader(header) == "true"

\* Mutant of MirrorKey: the key is the reference even when there is a digest.
MirrorKeyRefOnly(ref, dgst) == ref

\* key := dgst.String(); if key == "" { key = ref }
MirrorKey(ref, dgst) == IF dgst = "" THEN ref ELSE <<dgst>>

\* Registry.registryHandler
registryHandler(r, latestTag, resolveErr) ==
    IF ~IsPullMethod(r.method) THEN Return(SetStatus(r, StatusNotFound), "rejected")
    ELSE IF r.path = <<"v2">> THEN
        IF r.method # "GET"
        THEN Return(SetStatus(r, StatusNotFound), "rejected")
        ELSE Return(SetStatus(r, StatusOK), "probe")
    ELSE
      LET p == ParsePathComponents(r.ns, r.path) IN
      IF p.err THEN Return(AbortWithError(r, StatusNotFound, Err(ErrInvalidPath)), "rejected")
      ELSE IF LatestGate(latestTag, p.ref) THEN Return(AbortWithStatus(r, StatusNotFound), "gated")
      ELSE IF NotMirrored(r.header) THEN
          handleMirror([r EXCEPT !.header = SetMirroredHeader(@)], MirrorKey(p.ref, p.dgst), resolveErr)
      ELSE
        LET res == IF p.dgst = "" THEN OciResolve(r.node, p.ref)
                                  ELSE [dgst |-> p.dgst, err |-> FALSE]
            r1 == IF p.dgst = "" THEN [r EXCEPT !.storeOps = Append(@, "Resolve")] ELSE r
        IN
        IF res.err THEN Return(AbortWithError(r1, StatusNotFound, Err(ErrNotFound)), "local")
        ELSE IF p.refType = ReferenceTypeManifest THEN handleManifest(r1, res.dgst)
        ELSE IF p.refType = ReferenceTypeBlob THEN handleBlob(r1, res.dgst)
        ELSE Return(SetStatus(r1, StatusNotFound), "rejected")

\* The innermost invocation runs registryHandler up to its first wait.
RegistryHandler ==
    /\ reqs[Top].pc = "start"
    /\ \E resolveErr \in BOOLEAN :
          reqs' = [reqs EXCEPT ![Top] = registryHandler(@, resolveLatestTag, resolveErr)]
    /\ UNCHANGED <<resolveLatestTag, walk, mirrorCfg>>

\* The invocations whose handleMirror has not returned.
Live(r) == r.pc \in {"select", "proxy", "transfer"}

\* The resolver of invocation i yields candidate c on mirrorCh.
ResolverYield(i, c) ==
    /\ Live(reqs[i])
    /\ ~reqs[i].chNil /\ ~reqs[i].chClosed
    /\ reqs[i].yielded < resolveRetries
    /\ reqs' = [reqs EXCEPT ![i].mirrorCh = Append(@, c), ![i].yielded = @ + 1,
                            ![i].yieldedSeq = Append(@, c)]
    /\ UNCHANGED <<resolveLatestTag, walk, mirrorCfg>>

\* The resolver of invocation i closes mirrorCh.
ResolverClose(i) ==
    /\ Live(reqs[i])
    /\ ~reqs[i].chNil /\ ~reqs[i].chClosed
    /\ reqs' = [reqs EXCEPT ![i].chClosed = TRUE]
    /\ UNCHANGED <<resolveLatestTag, walk, mirrorCfg>>

\* Mutant of FireDeadline: the proxied request runs under resolveCtx, so
\* the firing cancels the attempt in flight.
FireDeadlineCancelsAttempt(r) ==
    [r EXCEPT !.deadline = "fired", !.deadlineAt = r.pc, !.deadlineAttempt = Len(r.attempts),
              !.pc = IF r.pc = "proxy" THEN "select" ELSE @]

\* Mutant of FireDeadline: the firing cuts the body copy and the loop goes on.
FireDeadlineCutsTransfer(r) ==
    [r EXCEPT !.deadline = "fired", !.deadlineAt = r.pc, !.deadlineAttempt = Len(r.attempts),
              !.pending = IF r.pc = "transfer" THEN <<>> ELSE @,
              !.pc = IF r.pc = "transfer" THEN "select" ELSE @]

\* Mutant of FireDeadline: resolveCtx has no deadline.
FireDeadlineNever(r) == r

\* What the firing of the resolve timeout does to an invocation: resolveCtx
\* becomes done; the proxied request runs under c.Request's context and is
\* not touched.
FireDeadline(r) ==
    [r EXCEPT !.deadline = "fired", !.deadlineAt = r.pc, !.deadlineAttempt = Len(r.attempts)]

\* The resolve timeout of invocation i elapses.
DeadlineFires(i) ==
    /\ Live(reqs[i])
    /\ reqs[i].deadline = "armed"
    /\ reqs' = [reqs EXCEPT ![i] = FireDeadline(@)]
    /\ UNCHANGED <<resolveLatestTag, walk, mirrorCfg>>

\* case <-resolveCtx.Done()
selectDone(r) ==
    Return(AbortWithError(r, StatusNotFound, [msg |-> ErrTimeout, key |-> r.key]), "timeout")

\* The select of the innermost invocation takes the resolveCtx.Done() case.
SelectDone ==
    /\ reqs[Top].pc = "select"
    /\ reqs[Top].deadline = "fired"
    /\ reqs' = [reqs EXCEPT ![Top] = selectDone(@)]
    /\ UNCHANGED <<resolveLatestTag, walk, mirrorCfg>>

\* url.Parse(mirror) fails
UrlParseFails(mirror) == mirror = BadUrl

\* The request the reverse proxy sends to the peer: method, path, query and
\* headers of c.Request.
ProxyRequest(r, mirror) == NewRequest(mirror, r.method, r.path, r.ns, r.header, r.host)

\* Mutant of attemptFailed: a failed attempt ends the request with 500.
attemptFailedAborts(r) ==
    Return(AbortWithError(r, StatusInternalServerError, Err("mirror failed")), "peer_error")

\* What the failure of an attempt does: the error handler writes nothing,
\* succeeded stays false, break leaves the select and the loop goes round.
attemptFailed(r) == [r EXCEPT !.pc = "select", !.mirror = "", !.inflight = @ - 1]

\* Mutant of Receive: the newest candidate is received first.
ReceiveNewest(ch) == [mirror |-> ch[Len(ch)], rest |-> SubSeq(ch, 1, Len(ch) - 1)]

\* mirror, ok := <-mirrorCh on a channel that holds candidates: the oldest one.
Receive(ch) == [mirror |-> Head(ch), rest |-> Tail(ch)]

\* Mutant of serveProxy: the proxy is started without waiting for it and the
\* loop goes round.
serveProxyAsync(r) ==
    [r EXCEPT !.inflight = @ + 1, !.pc = "select"]

\* proxy.ServeHTTP(c.Writer, c.Request) is called for r.mirror: the request is
\* sent to the peer and the handler waits for the answer; the transport fails
\* at once when nobody listens at the URL or when c.Request's context is
\* cancelled (the client is gone).
serveProxy(r) ==
    LET r1 == [r EXCEPT !.inflight = @ + 1] IN
    IF r.mirror \in Nodes /\ ~r.gone THEN [r1 EXCEPT !.pc = "proxy"]
    ELSE attemptFailed(r1)

\* Mutant of selectMirror: the closed channel is answered like the timeout.
selectMirrorClosedIs404(r) ==
    IF r.mirrorCh = <<>>
    THEN Return(AbortWithError(r, StatusNotFound, Err(ErrExhausted)), "exhausted")
    ELSE
      LET rcv == Receive(r.mirrorCh)
          mirror == rcv.mirror
          r1 == [r EXCEPT !.mirrorCh = rcv.rest, !.taken = Append(@, mirror),
                          !.succeeded = FALSE,
                          !.lateTakes = IF r.deadline = "fired" THEN @ + 1 ELSE @]
      IN
      IF UrlParseFails(mirror)
      THEN Return(AbortWithError(r1, StatusInternalServerError, Err(ErrUrlParse)), "parse_error")
      ELSE serveProxy([r1 EXCEPT !.attempts = Append(@, mirror), !.mirror = mirror])

\* case mirror, ok := <-mirrorCh, up to the return of a proxy.ServeHTTP that
\* fails at once.
selectMirror(r) ==
    IF r.mirrorCh = <<>>
    THEN Return(AbortWithError(r, StatusInternalServerError, Err(ErrExhausted)), "exhausted")
    ELSE
      LET rcv == Receive(r.mirrorCh)
          mirror == rcv.mirror
          r1 == [r EXCEPT !.mirrorCh = rcv.rest, !.taken = Append(@, mirror),
                          !.succeeded = FALSE,
                          !.lateTakes = IF r.deadline = "fired" THEN @ + 1 ELSE @]
      IN
      IF UrlParseFails(mirror)
      THEN Return(AbortWithError(r1, StatusInternalServerError, Err(ErrUrlParse)), "parse_error")
      ELSE serveProxy([r1 EXCEPT !.attempts = Append(@, mirror), !.mirror = mirror])

\* The select of the innermost invocation takes the mirrorCh case: a closed
\* channel, an unparsable candidate, a transport failure, or a request sent
\* to the peer, which starts an invocation there.
SelectMirror ==
    /\ reqs[Top].pc = "select"
    /\ ~reqs[Top].chNil
    /\ reqs[Top].mirrorCh # <<>> \/ reqs[Top].chClosed
    /\ LET r == selectMirror(reqs[Top]) IN
         IF r.pc = "proxy"
         THEN /\ Top < MaxDepth
              /\ reqs' = Append([reqs EXCEPT ![Top] = r], ProxyRequest(r, r.mirror))
         ELSE reqs' = [reqs EXCEPT ![Top] = r]
    /\ UNCHANGED <<resolveLatestTag, walk, mirrorCfg>>

\* Mutant of ModifyResponse: no status is vetoed.
ModifyResponseNoVeto(status) ==
    [err |-> FALSE, succeeded |-> status = StatusOK]

\* proxy.ModifyResponse: an error for every status but 200, succeeded set on 200.
ModifyResponse(status) ==
    [err |-> status # StatusOK, succeeded |-> status = StatusOK]

\* The reverse proxy of r has the peer's response resp: unless ModifyResponse
\* vetoes it, status and headers are written to the client and the body copy
\* starts.
proxyResponse(r, resp) ==
    LET mr == ModifyResponse(resp.status) IN
    IF mr.err THEN attemptFailed(r)
    ELSE [r EXCEPT !.succeeded = mr.succeeded,
                   !.status = IF r.written THEN @ ELSE resp.status,
                   !.written = TRUE,
                   !.headers = resp.headers,
                   !.sources = Append(@, [peer |-> r.mirror, status |-> resp.status,
                                          body |-> resp.body, attempt |-> Len(r.attempts),
                                          taken |-> Len(r.taken)]),
                   !.pending = resp.body,
                   !.pc = "transfer"]

\* The peer's invocation has returned; its response reaches the reverse proxy
\* of the invocation that is waiting for it.
PeerResponds ==
    /\ Top > 1
    /\ reqs[Top].pc = "done"
    /\ reqs' = Append(SubSeq(reqs, 1, Top - 2), proxyResponse(reqs[Top - 1], reqs[Top]))
    /\ UNCHANGED <<resolveLatestTag, walk, mirrorCfg>>

\* proxy.ServeHTTP returns after the body copy: return if succeeded, else break.
\* Mutant of transferDone: the return after a successful attempt is missing.
transferDoneNoReturn(r) ==
    attemptFailed([r EXCEPT !.body = @ \o r.pending, !.pending = <<>>])

transferDone(r) ==
    LET r1 == [r EXCEPT !.body = @ \o r.pending, !.pending = <<>>] IN
    IF r1.succeeded THEN Return([r1 EXCEPT !.inflight = @ - 1], "success")
    ELSE attemptFailed(r1)

\* The body of the peer's response has been copied to the client.
TransferDone ==
    /\ reqs[Top].pc = "transfer"
    /\ reqs' = [reqs EXCEPT ![Top] = transferDone(@)]
    /\ UNCHANGED <<resolveLatestTag, walk, mirrorCfg>>

\* Mutant of TransferBreaks: a broken body copy counts as a failed attempt
\* and the loop goes round.
TransferBreaksTriesNext ==
    /\ reqs[Top].pc = "transfer"
    /\ reqs[Top].pending # <<>>
    /\ reqs' = [reqs EXCEPT ![Top] = attemptFailed([@ EXCEPT !.pending = <<>>])]
    /\ UNCHANGED <<resolveLatestTag, walk, mirrorCfg>>

\* What a broken body copy does: the reverse proxy panics with
\* http.ErrAbortHandler when the request came through an http.Server, and
\* returns otherwise, with succeeded set; the client keeps what it has.
copyBroken(r, panics) ==
    LET r1 == [r EXCEPT !.pending = <<>>, !.inflight = @ - 1] IN
    IF panics THEN Abort(r1, "aborted") ELSE Return(r1, "aborted")

\* The body copy breaks (the peer's connection is reset mid-stream).
TransferBreaks ==
    /\ reqs[Top].pc = "transfer"
    /\ reqs[Top].pending # <<>>
    /\ \E panics \in BOOLEAN :
          reqs' = [reqs EXCEPT ![Top] = copyBroken(@, panics)]
    /\ UNCHANGED <<resolveLatestTag, walk, mirrorCfg>>

\* The client of r goes away and c.Request's context is cancelled: a proxied
\* request in flight is cancelled and fails, a body copy breaks.  resolveCtx
\* derives from the gin context, whose Done channel is nil, and stays as it is.
clientDisconnect(r, panics) ==
    LET r1 == [r EXCEPT !.gone = TRUE, !.goneAt = r.pc, !.goneTaken = Len(r.taken),
                        !.goneAttempts = Len(r.attempts)]
    IN
    IF r.pc = "proxy" THEN attemptFailed(r1)
    ELSE IF r.pc = "transfer" THEN copyBroken(r1, panics)
    ELSE r1

\* The client of the request disconnects while handleMirror runs; the peer's
\* invocation, if any, is abandoned with the cancelled request.
ClientDisconnects ==
    /\ Live(reqs[1])
    /\ ~reqs[1].gone
    /\ \E panics \in BOOLEAN : reqs' = << clientDisconnect(reqs[1], panics) >>
    /\ UNCHANGED <<resolveLatestTag, walk, mirrorCfg>>

Next ==
    \/ RegistryHandler
    \/ \E i \in 1..Len(reqs), c \in Candidates : ResolverYield(i, c)
    \/ \E i \in 1..Len(reqs) : ResolverClose(i)
    \/ \E i \in 1..Len(reqs) : DeadlineFires(i)
    \/ SelectDone
    \/ SelectMirror
    \/ PeerResponds
    \/ TransferDone
    \/ TransferBreaks
    \/ ClientDisconnects

Spec == Init /\ [][Next]_vars

\* The requests sent to the node's own address: the Host only chooses a
\* label of the metrics counter.
InitLive ==
    /\ Init
    /\ reqs[1].host = LocalAddr(reqs[1].node)

\* The registry under the scheduling the runtime gives it: a handler that can
\* take a step takes one (a select with a ready case proceeds, a peer's
\* answer is read, a body copy ends), and the timer of resolveCtx fires once
\* resolveTimeout has elapsed.  Nothing is assumed of the resolver, which may
\* never yield and never close, nor of the client.
SpecLive ==
    /\ InitLive
    /\ [][Next]_vars
    /\ WF_vars(RegistryHandler)
    /\ WF_vars(SelectDone \/ SelectMirror)
    /\ WF_vars(PeerResponds)
    /\ WF_vars(TransferDone \/ TransferBreaks)
    /\ \A i \in 1..MaxDepth : WF_vars(i <= Len(reqs) /\ DeadlineFires(i))

\* -------------------------------------------------------------- image walk
\* The walk of an image's manifest graph (GetImageDigests / WalkImage of the
\* OCI store adapter), run against the content store of the tests.

\* Most child manifests of the indexes the walk is tried on.
MaxManifests == 3

MediaTypeImageIndex == "application/vnd.oci.image.index.v1+json"
MediaTypeImageManifest == "application/vnd.oci.image.manifest.v1+json"

\* The manifests array of the image index of the tests.
FixtureManifests ==
    << [digest |-> "sha256:44cb", platform |-> [os |-> "linux", architecture |-> "amd64"]],
       [digest |-> "sha256:0ad7", platform |-> [os |-> "linux", architecture |-> "arm"]],
       [digest |-> "sha256:dce6", platform |-> [os |-> "linux", architecture |-> "arm64"]],
       [digest |-> "sha256:73af", platform |-> [os |-> "unknown", architecture |-> "unknown"]],
       [digest |-> "sha256:36e1", platform |-> [os |-> "unknown", architecture |-> "unknown"]],
       [digest |-> "sha256:42d1", platform |-> [os |-> "unknown", architecture |-> "unknown"]] >>

\* The manifests the content store of the tests holds.
StoredManifests == {"sha256:44cb", "sha256:dce6", "sha256:0ad7"}

\* Config and layers of the stored manifests.
ManifestData(d) ==
    CASE d = "sha256:44cb" ->
          [config |-> "sha256:d715",
           layers |-> << "sha256:a7ca", "sha256:fe5c", "sha256:b02a", "sha256:fcb6",
                         "sha256:e8c7", "sha256:1e3d", "sha256:4aa0", "sha256:7c88",
                         "sha256:5627", "sha256:76f3", "sha256:4f4f" >>]
      [] d = "sha256:dce6" ->
          [config |-> "sha256:c731",
           layers |-> << "sha256:0b41", "sha256:fe5c", "sha256:b02a", "sha256:fcb6",
                         "sha256:e8c7", "sha256:1e3d", "sha256:4aa0", "sha256:7c88",
                         "sha256:5627", "sha256:0dc7", "sha256:4f4f" >>]
      [] d = "sha256:0ad7" ->
          [config |-> "sha256:1079",
           layers |-> << "sha256:b437", "sha256:fe5c", "sha256:b02a", "sha256:fcb6",
                         "sha256:e8c7", "sha256:1e3d", "sha256:4aa0", "sha256:7c88",
                         "sha256:5627", "sha256:01d2", "sha256:4f4f" >>]

\* The digest the image store gives for the index written with and without
\* its mediaType field.
IndexDigest(withMediaType) == IF withMediaType THEN "sha256:e80e" ELSE "sha256:e2db"

\* expectedKeys of TestGetImageDigests.
ExpectedKeys(architecture, withMediaType) ==
    << IndexDigest(withMediaType) >> \o
    CASE architecture = "amd64" ->
          << "sha256:44cb", "sha256:d715", "sha256:a7ca", "sha256:fe5c", "sha256:b02a",
             "sha256:fcb6", "sha256:e8c7", "sha256:1e3d", "sha256:4aa0", "sha256:7c88",
             "sha256:5627", "sha256:76f3", "sha256:4f4f" >>
      [] architecture = "arm64" ->
          << "sha256:dce6", "sha256:c731", "sha256:0b41", "sha256:fe5c", "sha256:b02a",
             "sha256:fcb6", "sha256:e8c7", "sha256:1e3d", "sha256:4aa0", "sha256:7c88",
             "sha256:5627", "sha256:0dc7", "sha256:4f4f" >>
      [] architecture = "arm" ->
          << "sha256:0ad7", "sha256:1079", "sha256:b437", "sha256:fe5c", "sha256:b02a",
             "sha256:fcb6", "sha256:e8c7", "sha256:1e3d", "sha256:4aa0", "sha256:7c88",
             "sha256:5627", "sha256:01d2", "sha256:4f4f" >>

\* The platforms the walk is tried with: those of the tests, and "*" for a
\* matcher that accepts every platform.
MatcherPlatforms ==
    { [os |-> "linux", architecture |-> "amd64"],
      [os |-> "linux", architecture |-> "arm64"],
      [os |-> "linux", architecture |-> "arm"],
      [os |-> "darwin", architecture |-> "arm64"],
      [os |-> "*", architecture |-> "*"] }

\* The indexes the walk is tried on: the one of the tests, and every index of
\* up to MaxManifests children taken among its first four.
WalkIndexes ==
    {FixtureManifests} \cup
    UNION { [1..n -> {FixtureManifests[k] : k \in 1..4}] : n \in 0..MaxManifests }

\* The platform matcher: does the matcher for platform m accept platform p.
Match(m, p) ==
    /\ m.os = "*" \/ m.os = p.os
    /\ m.architecture = "*" \/ m.architecture = p.architecture

\* Mutant of IsAttestation: attestation manifests are not recognised.
IsAttestationNever(p) == FALSE

\* A descriptor of an attestation manifest: its platform architecture is unknown.
IsAttestation(p) == p.architecture = "unknown"

RECURSIVE MatchingManifests(_, _)
\* The children of an index the walk goes into: those that are not attestation
\* manifests and that the matcher accepts, in index order.
MatchingManifests(manifests, m) ==
    IF manifests = <<>> THEN <<>>
    ELSE (IF ~IsAttestation(Head(manifests).platform) /\ Match(m, Head(manifests).platform)
          THEN <<Head(manifests)>> ELSE <<>>)
         \o MatchingManifests(Tail(manifests), m)

\* The content store read of digest d during walk w: the index document at
\* the root, a manifest document, or an error for a digest it does not hold.
ReadDoc(w, d) ==
    IF d = w.root
    THEN [err |-> FALSE,
          doc |-> [mediaType |-> IF w.withMediaType THEN MediaTypeImageIndex ELSE "",
                   manifests |-> w.manifests]]
    ELSE IF d \in StoredManifests
    THEN [err |-> FALSE,
          doc |-> [mediaType |-> MediaTypeImageManifest,
                   config |-> ManifestData(d).config, layers |-> ManifestData(d).layers]]
    ELSE [err |-> TRUE, doc |-> [mediaType |-> ""]]

\* The kind of a document: its mediaType, and without one its structure
\* (manifests[] makes an index, layers[] a manifest).
DocKind(doc) ==
    IF doc.mediaType = MediaTypeImageIndex THEN "index"
    ELSE IF doc.mediaType = MediaTypeImageManifest THEN "manifest"
    ELSE IF "manifests" \in DOMAIN doc THEN "index"
    ELSE IF "layers" \in DOMAIN doc THEN "manifest"
    ELSE "unknown"

\* Mutant of ManifestKeys: the config digest comes after the layers.
ManifestKeysConfigLast(doc) == doc.layers \o <<doc.config>>

\* What a manifest adds to the output after its own digest: its config digest
\* and its layer digests in manifest order.
ManifestKeys(doc) == <<doc.config>> \o doc.layers

ErrNoMatchingPlatform == "could not find platform architecture in manifest"
ErrDigestNotFound == "digest not found"

\* Mutant of NoMatch: an index without a matching child is not an error.
NoMatchIgnored(children) == FALSE

\* No child of the index is walked into.
NoMatch(children) == children = <<>>

\* The walk handler on the descriptor with digest d: the keys it adds, the
\* children to walk into, or the error that ends the walk.
walkHandler(w, d) ==
    LET got == ReadDoc(w, d)
        kind == DocKind(got.doc)
        none == [keys |-> <<d>>, children |-> <<>>, err |-> "", errDigest |-> ""]
    IN
    IF got.err THEN [none EXCEPT !.err = ErrDigestNotFound, !.errDigest = d]
    ELSE IF kind = "index" THEN
        LET children == MatchingManifests(got.doc.manifests, w.platform) IN
        IF NoMatch(children)
        THEN [none EXCEPT !.err = ErrNoMatchingPlatform, !.errDigest = d]
        ELSE [none EXCEPT !.children = [k \in 1..Len(children) |-> children[k].digest]]
    ELSE IF kind = "manifest" THEN [none EXCEPT !.keys = <<d>> \o ManifestKeys(got.doc)]
    ELSE none

\* The walk of index manifests (written with or without mediaType) for the
\* matcher of platform, before its first step.
NewWalk(manifests, withMediaType, platform) ==
    [ pc |-> "walk",
      root |-> IndexDigest(withMediaType),
      manifests |-> manifests, withMediaType |-> withMediaType, platform |-> platform,
      stack |-> << IndexDigest(withMediaType) >>,   \* descriptors still to visit
      keys |-> <<>>,                                \* digests collected so far
      result |-> <<>>,                              \* the list returned
      err |-> "", errDigest |-> "" ]

InitWalk ==
    /\ reqs = <<>>
    /\ mirrorCfg = NoMirrorCfg
    /\ resolveLatestTag = FALSE
    /\ \E manifests \in WalkIndexes, withMediaType \in BOOLEAN, platform \in MatcherPlatforms :
          walk = NewWalk(manifests, withMediaType, platform)

\* The walk visits the next descriptor, depth first: its children go before
\* what was left to visit; an error ends the walk and no list is returned.
WalkVisit ==
    /\ walk.pc = "walk"
    /\ walk.stack # <<>>
    /\ LET h == walkHandler(walk, Head(walk.stack)) IN
         walk' = IF h.err # ""
                 THEN [walk EXCEPT !.pc = "failed", !.err = h.err, !.errDigest = h.errDigest,
                                   !.keys = @ \o h.keys, !.stack = <<>>]
                 ELSE [walk EXCEPT !.keys = @ \o h.keys,
                                   !.stack = h.children \o Tail(@)]
    /\ UNCHANGED <<reqs, resolveLatestTag, mirrorCfg>>

\* Nothing is left to visit: the collected digests are returned.
WalkReturn ==
    /\ walk.pc = "walk"
    /\ walk.stack = <<>>
    /\ walk' = [walk EXCEPT !.pc = "done", !.result = walk.keys]
    /\ UNCHANGED <<reqs, resolveLatestTag, mirrorCfg>>

NextWalk ==
    \/ WalkVisit
    \/ WalkReturn

SpecWalk == InitWalk /\ [][NextWalk]_vars

\* ------------------------------------------------------ mirror-config writer
\* AddMirrorConfiguration of the OCI store adapter on the file tree below the
\* registry config path.  A path is the sequence of its segments below the
\* config path, a file content a sequence of text tokens, a tree a set of
\* files; the directories are those the files lie in.

\* Most runs of the writer on one config path.
MaxRuns == 2
\* Most registries in the input.
MaxRegistries == 2

\* A url.URL.
Url(scheme, user, host, path, query) ==
    [scheme |-> scheme, user |-> user, host |-> host, path |-> path, query |-> query]

\* url.URL.String, as tokens.
UrlString(u) ==
    <<u.scheme, "://">> \o (IF u.user = "" THEN <<>> ELSE <<u.user, "@">>) \o <<u.host>>
    \o (IF u.path = "" THEN <<>> ELSE <<u.path>>)
    \o (IF u.query = "" THEN <<>> ELSE <<"?", u.query>>)

\* The registry URLs of the tests: two valid ones, and one for each way of
\* being invalid.
RegistryUrls ==
    { Url("https", "", "docker.io", "", ""),
      Url("http", "", "foo.bar:5000", "", ""),
      Url("ftp", "", "docker.io", "", ""),
      Url("https", "", "docker.io", "/foo/bar", ""),
      Url("https", "", "docker.io", "", "foo=bar"),
      Url("https", "foo", "docker.io", "", "") }

\* The mirror lists of the tests.
MirrorLists ==
    { << Url("http", "", "127.0.0.1:5000", "", "") >>,
      << Url("http", "", "127.0.0.1:5000", "", ""), Url("http", "", "127.0.0.1:5001", "", "") >> }

File(path, content) == [path |-> path, content |-> content]

\* The files the tests put below the config path before a run.
ExistingFiles ==
    { File(<<"docker.io", "hosts.toml">>, <<"Hello World">>),
      File(<<"ghcr.io", "hosts.toml">>, <<"Foo Bar">>),
      File(<<"_backup", "docker.io", "hosts.toml">>, <<"Hello World">>),
      File(<<"_backup", "ghcr.io", "hosts.toml">>, <<"Foo Bar">>),
      File(<<"test.txt">>, <<"test">>),
      File(<<"foo">>, <<"bar">>) }

ErrScheme == "invalid registry url scheme must be http or https"
ErrPath == "invalid registry url path has to be empty"
ErrQuery == "invalid registry url query has to be empty"
ErrUser == "invalid registry url user has to be empty"

\* Mutant of validateUrl: user-info is not looked at.
validateUrlUserAllowed(u) ==
    IF u.scheme \notin {"http", "https"} THEN ErrScheme
    ELSE IF u.path # "" THEN ErrPath
    ELSE IF u.query # "" THEN ErrQuery
    ELSE ""

\* The precondition on one registry URL: "" or what is wrong with it.
validateUrl(u) ==
    IF u.scheme \notin {"http", "https"} THEN ErrScheme
    ELSE IF u.path # "" THEN ErrPath
    ELSE IF u.query # "" THEN ErrQuery
    ELSE IF u.user # "" THEN ErrUser
    ELSE ""

\* The preconditions on the registry URLs: the error for the first invalid
\* one, no error if all are valid.
validate(registries) ==
    LET bad == { k \in 1..Len(registries) : validateUrl(registries[k]) # "" } IN
    IF bad = {} THEN [msg |-> "", url |-> <<>>]
    ELSE LET k == CHOOSE j \in bad : \A l \in bad : j <= l IN
         [msg |-> validateUrl(registries[k]), url |-> UrlString(registries[k])]

\* canonical-upstream: docker.io is served by registry-1.docker.io.
CanonicalUpstream(u) ==
    IF u.host = "docker.io" THEN [u EXCEPT !.host = "registry-1.docker.io"] ELSE u

RECURSIVE hostBlocks(_, _)
\* One [host.'M'] block per mirror, with the capabilities.
hostBlocks(mirrors, resolveTags) ==
    IF mirrors = <<>> THEN <<>>
    ELSE <<"[host.'">> \o UrlString(Head(mirrors)) \o <<"']", "capabilities = ",
           IF resolveTags THEN "['pull', 'resolve']" ELSE "['pull']">>
         \o hostBlocks(Tail(mirrors), resolveTags)

\* The content of hosts.toml for a registry.
templateHosts(registry, mirrors, resolveTags) ==
    <<"server = '">> \o UrlString(CanonicalUpstream(registry)) \o <<"'", "[host]">>
    \o hostBlocks(mirrors, resolveTags)

BackupDir == <<"_backup">>

\* Path p lies below directory dir.
Under(p, dir) == Len(p) > Len(dir) /\ SubSeq(p, 1, Len(dir)) = dir

\* A loose file: directly in the config path.
IsLoose(f) == Len(f.path) = 1

\* The _backup directory exists.
HasBackup(files) == \E f \in files : Under(f.path, BackupDir)

\* Mutant of BackupPath: the file is put directly in _backup.
BackupPathFlat(p) == BackupDir \o <<p[Len(p)]>>

\* Where a file is moved to: the same relative path below _backup.
BackupPath(p) == BackupDir \o p

\* The backup step.  With _backup present it is left alone, loose files are
\* discarded and the other directories are removed or left (staleRemoved);
\* without it the files in directories are moved below _backup and loose
\* files are discarded.
backup(files, staleRemoved) ==
    IF HasBackup(files)
    THEN { f \in files : Under(f.path, BackupDir) \/ (~IsLoose(f) /\ ~staleRemoved) }
    ELSE { File(BackupPath(f.path), f.content) : f \in { g \in files : ~IsLoose(g) } }

\* afero.WriteFile
WriteFile(files, path, content) ==
    { f \in files : f.path # path } \cup { File(path, content) }

RECURSIVE writeHosts(_, _, _, _)
\* {config-path}/{U-host}/hosts.toml is written for each registry U.
writeHosts(files, registries, mirrors, resolveTags) ==
    IF registries = <<>> THEN files
    ELSE writeHosts(WriteFile(files, <<Head(registries).host, "hosts.toml">>,
                              templateHosts(Head(registries), mirrors, resolveTags)),
                    Tail(registries), mirrors, resolveTags)

\* AddMirrorConfiguration on the config path of c: the preconditions, then
\* the config path directory, the backup step and the hosts.toml files.
AddMirrorConfiguration(c) ==
    LET e == validate(c.registries)
        c1 == [c EXCEPT !.runs = @ + 1, !.before = c.files, !.dirBefore = c.dirExists, !.err = e]
    IN
    IF e.msg # "" THEN c1
    ELSE LET c2 == [c1 EXCEPT !.dirExists = TRUE,
                              !.files = writeHosts(backup(c.files, c.staleRemoved),
                                                   c.registries, c.mirrors, c.resolveTags)]
         IN [c2 EXCEPT !.first = IF c.runs = 0 THEN c2.files ELSE @]

\* A config path with its files, the input of the writer, and no run yet.
NewMirrorCfg(files, dirExists, registries, mirrors, resolveTags, staleRemoved) ==
    [ pc |-> "ready",
      files |-> files,
      dirExists |-> dirExists,       \* the config path directory exists
      registries |-> registries, mirrors |-> mirrors, resolveTags |-> resolveTags,
      staleRemoved |-> staleRemoved,
      runs |-> 0,
      initial |-> files,             \* the files before the first run
      before |-> files,              \* the files before the last run
      dirBefore |-> dirExists,
      first |-> {},                  \* the files after the first run
      err |-> [msg |-> "", url |-> <<>>] ]

InitMirrorCfg ==
    /\ reqs = <<>>
    /\ resolveLatestTag = FALSE
    /\ walk = NoWalk
    /\ \E files \in SUBSET ExistingFiles, dirExists \in BOOLEAN,
          registries \in UNION { [1..n -> RegistryUrls] : n \in 1..MaxRegistries },
          mirrors \in MirrorLists, resolveTags \in BOOLEAN, staleRemoved \in BOOLEAN :
          /\ files # {} => dirExists
          /\ mirrorCfg = NewMirrorCfg(files, dirExists, registries, mirrors, resolveTags,
                                      staleRemoved)

\* The writer runs with the same input on the config path as it is.
RunWriter ==
    /\ mirrorCfg.pc = "ready"
    /\ mirrorCfg.runs < MaxRuns
    /\ mirrorCfg' = AddMirrorConfiguration(mirrorCfg)
    /\ UNCHANGED <<reqs, resolveLatestTag, walk>>

NextMirrorCfg == RunWriter

SpecMirrorCfg == InitMirrorCfg /\ [][NextMirrorCfg]_vars

\* ------------------------------------------------------------------ claims
Frames == 1..Len(reqs)

LastError(r) == IF r.errors = <<>> THEN Err("") ELSE r.errors[Len(r.errors)]

\* What the client of invocation r has of the response.
Resp(r) == <<r.status, r.written, r.headers, r.body>>

\* The request asks for a manifest by the tag latest.
IsLatestManifestPath(path) ==
    /\ Len(path) >= 4
    /\ path[Len(path) - 1] = "manifests"
    /\ path[Len(path)] = "latest"

\* The mirror request of r ended and no attempt succeeded.
EndedWithoutSuccess(r) ==
    r.handler = "mirror" /\ r.pc = "done" /\ r.outcome \notin {"success", "aborted"}

C2_OneSource ==
    \A i \in Frames :
        LET r == reqs[i] IN
        /\ Len(r.sources) <= 1
        /\ \A k \in 1..Len(r.sources) : r.sources[k].status = StatusOK
        /\ (r.handler = "mirror" /\ (r.body # <<>> \/ r.headers # NoHeaders)) => r.sources # <<>>
        /\ r.outcome = "success" =>
              (r.status = StatusOK /\ Len(r.sources) = 1 /\ r.body = r.sources[1].body)

\* C2, step part: an attempt that ends with a non-200 answer or a transport
\* failure leaves the client's response as it was and puts the handler back
\* at the select for the next candidate.
C2_FailedAttemptStep ==
    \A i \in Frames :
        /\ ( /\ reqs[i].pc = "proxy" /\ i < Len(reqs)
             /\ reqs[i + 1].pc = "done" /\ reqs[i + 1].status # StatusOK
             /\ Len(reqs') = i )
           => (reqs'[i].pc = "select" /\ Resp(reqs'[i]) = Resp(reqs[i]))
        /\ ( /\ reqs[i].pc = "select" /\ Len(reqs') = Len(reqs)
             /\ Len(reqs'[i].attempts) > Len(reqs[i].attempts) )
           => (reqs'[i].pc = "select" /\ Resp(reqs'[i]) = Resp(reqs[i]))

C2_NoMidResponseSwitch == [](C2_OneSource) /\ [][C2_FailedAttemptStep]_vars

\* Candidates [P1, P2]: P1 answered 500, P2 answered 200 with the blob; the
\* client has 200 and exactly the blob.
C2_Witness ==
    /\ reqs[1].pc = "done" /\ reqs[1].outcome = "success"
    /\ reqs[1].attempts = <<"n1", "n2">>
    /\ reqs[1].status = StatusOK /\ reqs[1].body = <<BlobDigest>>
    /\ reqs[1].sources[1].peer = "n2"

\* C3 (timeout gives 404), as claimed: when the deadline fires before an
\* attempt has succeeded the client receives 404 with the timeout message for
\* the key, and no candidate is received from the stream after the firing.
C3_TimeoutGives404 ==
    \A i \in Frames :
        LET r == reqs[i] IN
        /\ r.lateTakes = 0
        /\ (r.pc = "done" /\ r.deadlineAt \in {"select", "proxy"}) =>
              /\ r.status = StatusNotFound
              /\ LastError(r) = [msg |-> ErrTimeout, key |-> r.key]

\* C4 (exhaustion gives 500), as claimed: whenever the stream has been closed
\* after candidates that were attempted and failed, and the request has
\* ended, the client has received 500 with the exhaustion message.
C4_ExhaustionGives500 ==
    \A i \in Frames :
        LET r == reqs[i] IN
        ( /\ EndedWithoutSuccess(r) /\ r.chClosed /\ ~r.chNil
          /\ r.attempts = r.taken )
        => (r.status = StatusInternalServerError /\ LastError(r) = Err(ErrExhausted))

\* C4, amended: when the stream has been closed, every candidate it yielded has
\* been received and parsed, none succeeded, and the select did not take the
\* deadline case, the client receives 500 with the exhaustion message and
\* nothing from a peer.
C4_ExhaustionObserved ==
    \A i \in Frames :
        LET r == reqs[i] IN
        ( /\ EndedWithoutSuccess(r) /\ r.chClosed /\ r.mirrorCh = <<>>
          /\ \A k \in 1..Len(r.taken) : ~UrlParseFails(r.taken[k])
          /\ r.outcome # "timeout" )
        => /\ r.status = StatusInternalServerError
           /\ LastError(r) = Err(ErrExhausted)
           /\ r.sources = <<>> /\ r.body = <<>>

\* The stream [P1] with P1 failing at transport level, then closed: 500.
C4_Witness ==
    /\ reqs[1].pc = "done" /\ reqs[1].outcome = "exhausted"
    /\ reqs[1].taken = <<DownUrl>> /\ reqs[1].attempts = <<DownUrl>>
    /\ reqs[1].status = StatusInternalServerError

\* C5 (latest gate), as claimed: with resolveLatestTag false a GET/HEAD
\* request for the manifest tagged latest is answered 404 with no call of
\* router.Resolve, no proxy attempt and no store operation, for every ns.
C5_LatestGate ==
    \A i \in Frames :
        LET r == reqs[i] IN
        ( /\ ~resolveLatestTag /\ IsPullMethod(r.method)
          /\ IsLatestManifestPath(r.path) /\ r.pc # "start" )
        => /\ r.pc = "done" /\ r.status = StatusNotFound
           /\ r.resolveCalls = 0 /\ r.attempts = <<>> /\ r.storeOps = <<>>

C7_ResolveErrorReturns ==
    \A i \in Frames :
        LET r == reqs[i] IN
        r.chNil => (r.pc = "done" /\ r.status = StatusInternalServerError /\ r.attempts = <<>>)

\* C8 (every failure advances), as claimed: a mirror request ends without
\* success only through the timeout or the exhaustion outcome.
C8_OnlyTimeoutOrExhaustion ==
    \A i \in Frames :
        EndedWithoutSuccess(reqs[i]) => reqs[i].outcome \in {"timeout", "exhausted"}

\* C8, amended, state part: a mirror request ends without success only
\* through the timeout, the exhaustion, or the 500 given for a candidate that
\* url.Parse rejects, which is the last candidate received and is not
\* attempted.
C8_Outcomes ==
    \A i \in Frames :
        LET r == reqs[i] IN
        EndedWithoutSuccess(r) =>
            /\ r.outcome \in {"timeout", "exhausted", "parse_error"}
            /\ r.outcome = "parse_error" =>
                  /\ UrlParseFails(r.taken[Len(r.taken)])
                  /\ Len(r.attempts) = Len(r.taken) - 1
                  /\ r.status = StatusInternalServerError
                  /\ LastError(r) = Err(ErrUrlParse)

\* C8, amended, step part: an attempt that ends with a non-200 answer or with
\* a transport failure puts the handler back at the select.
C8_FailureAdvances ==
    \A i \in Frames :
        /\ ( /\ reqs[i].pc = "proxy" /\ i < Len(reqs)
             /\ reqs[i + 1].pc = "done" /\ reqs[i + 1].status # StatusOK
             /\ Len(reqs') = i )
           => reqs'[i].pc = "select"
        /\ ( /\ reqs[i].pc = "select" /\ Len(reqs') = Len(reqs)
             /\ Len(reqs'[i].taken) > Len(reqs[i].taken)
             /\ ~UrlParseFails(Head(reqs[i].mirrorCh)) )
           => reqs'[i].pc = "select"

C8_EveryPeerFailureAdvances == [](C8_Outcomes) /\ [][C8_FailureAdvances]_vars

\* A transport failure advanced to the next candidate, which url.Parse
\* rejected: the request ended with 500.
C8_Witness ==
    /\ reqs[1].pc = "done" /\ reqs[1].outcome = "parse_error"
    /\ reqs[1].taken = <<DownUrl, BadUrl>>
    /\ reqs[1].attempts = <<DownUrl>>

C9_AttemptRunsToCompletion ==
    \A i \in Frames :
        reqs[i].pc = "proxy" =>
            /\ i < Len(reqs)
            /\ \/ /\ Len(reqs') > i
                   /\ reqs'[i].pc = "proxy"
               \/ /\ Len(reqs') = i /\ ~reqs[i].gone /\ reqs'[i].gone
                   /\ reqs'[i].pc = "select"
                   /\ reqs'[i].deadline = reqs[i].deadline
               \/ /\ Len(reqs') = i /\ reqs'[i].gone = reqs[i].gone
                   /\ reqs[i + 1].pc = "done"
                   /\ IF reqs[i + 1].status = StatusOK
                      THEN /\ reqs'[i].pc = "transfer"
                           /\ reqs'[i].status = StatusOK
                           /\ reqs'[i].pending = reqs[i + 1].body
                      ELSE reqs'[i].pc = "select"

\* C9, amended, state part: the timeout answer is given only from the select,
\* after the deadline fired, and never while or after a peer's 200 is written.
C9_TimeoutOnlyAtSelect ==
    \A i \in Frames :
        LET r == reqs[i] IN
        r.outcome = "timeout" =>
            (r.deadline = "fired" /\ r.sources = <<>> /\ r.mirror = "")

C10_DeadlineSparesTransfer ==
    \A i \in Frames :
        LET r == reqs[i] IN
        r.deadlineAt = "transfer" =>
            /\ r.pc \in {"transfer", "done"}
            /\ r.status = StatusOK
            /\ r.outcome \in {"", "success", "aborted"}
            /\ r.lateTakes = 0
            /\ Len(r.attempts) = r.deadlineAttempt
            /\ r.outcome = "success" => r.body = r.sources[1].body

\* The deadline fired during the body copy and the client has the whole body.
C10_Witness ==
    /\ reqs[1].pc = "done" /\ reqs[1].outcome = "success"
    /\ reqs[1].deadlineAt = "transfer"
    /\ reqs[1].body = <<BlobDigest>>

\* C11 (client disconnect stops the loop), as claimed: after the client has
\* disconnected while an attempt was in flight, no further candidate is
\* received from the stream and no further attempt is started.
C11_DisconnectStopsLoop ==
    \A i \in Frames :
        LET r == reqs[i] IN
        (r.gone /\ r.goneAt = "proxy") =>
            (Len(r.taken) = r.goneTaken /\ Len(r.attempts) = r.goneAttempts)

\* A is a prefix of B.
IsPrefix(A, B) == Len(A) <= Len(B) /\ A = SubSeq(B, 1, Len(A))

\* C12 (at-most-once success): an invocation has at most one successful
\* attempt, and from the moment a peer's 200 is accepted it receives no further
\* candidate and starts no further attempt, whatever is left on the stream.
C12_AtMostOnceSuccess ==
    \A i \in Frames :
        LET r == reqs[i] IN
        /\ Len(r.sources) <= 1
        /\ r.sources # <<>> =>
              /\ r.pc \in {"transfer", "done"}
              /\ Len(r.attempts) = r.sources[1].attempt
              /\ Len(r.taken) = r.sources[1].taken
              /\ r.attempts[Len(r.attempts)] = r.sources[1].peer

\* An attempt succeeded and the request ended while a candidate was still
\* waiting on the stream.
C12_Witness ==
    /\ reqs[1].pc = "done" /\ reqs[1].outcome = "success"
    /\ reqs[1].mirrorCh # <<>>
    /\ reqs[1].taken = <<"n2">>

\* C13 (sequential attempts), state part: in every invocation at most one
\* call of the reverse proxy is in flight, and one is in flight exactly while
\* the handler waits for the peer or copies its body.
C13_OneInFlight ==
    \A i \in Frames :
        LET r == reqs[i] IN
        /\ r.inflight \in {0, 1}
        /\ r.inflight = 1 <=> r.pc \in {"proxy", "transfer"}
        /\ r.pc = "proxy" => (i < Len(reqs) /\ r.mirror = reqs[i + 1].node)

\* C13, step part: an attempt starts only when the attempts before it have
\* all finished, none of them with success.
C13_StartsAfterFailure ==
    \A i \in Frames :
        (i <= Len(reqs') /\ Len(reqs'[i].attempts) > Len(reqs[i].attempts)) =>
            /\ reqs[i].inflight = 0
            /\ reqs[i].sources = <<>>
            /\ ~reqs[i].succeeded
            /\ Len(reqs'[i].attempts) = Len(reqs[i].attempts) + 1

C14_OrderPreserved ==
    \A i \in Frames :
        LET r == reqs[i] IN
        /\ r.taken \o r.mirrorCh = r.yieldedSeq
        /\ IsPrefix(r.attempts, r.yieldedSeq)
        /\ \/ r.attempts = r.taken
           \/ /\ r.outcome = "parse_error"
              /\ r.attempts = SubSeq(r.taken, 1, Len(r.taken) - 1)

\* The resolver sent two candidates before the first was received; both have
\* been attempted in the order sent.
C14_Witness ==
    /\ reqs[1].pc = "done"
    /\ reqs[1].yieldedSeq = <<DownUrl, "n1">>
    /\ reqs[1].attempts = <<DownUrl, "n1">>
    /\ reqs[1].lateTakes = 0 /\ reqs[1].outcome = "exhausted"

\* C15 (locally missing content gives 404), as claimed: a marked request that
\* fails because the tag, the manifest or the blob is not in the local store
\* is answered 404.
C15_MissingGives404 ==
    \A i \in Frames :
        LET r == reqs[i] IN
        ( /\ r.arrived = "true" /\ r.pc = "done" /\ r.outcome = "local"
          /\ LastError(r) = Err(ErrNotFound) )
        => r.status = StatusNotFound

\* C16 (pull-only surface): a request whose method is neither GET nor HEAD
\* is answered 404 with nothing else done: no parse error recorded, no handler
\* entered, no router.Resolve, no candidate received or attempted, no store
\* operation, no response header or body, and the request header untouched.
C16_PullOnly ==
    \A i \in Frames :
        LET r == reqs[i] IN
        (~(r.method = "GET" \/ r.method = "HEAD") /\ r.pc # "start") =>
            /\ r.pc = "done" /\ r.status = StatusNotFound
            /\ r.errors = <<>> /\ r.handler = ""
            /\ r.resolveCalls = 0 /\ r.taken = <<>> /\ r.attempts = <<>>
            /\ r.storeOps = <<>>
            /\ r.headers = NoHeaders /\ r.body = <<>>
            /\ r.header = r.arrived

\* A POST for a blob path, without the mirrored header, has been answered 404.
C16_Witness ==
    /\ reqs[1].method = "POST" /\ reqs[1].arrived = ""
    /\ reqs[1].path = <<"v2", "img", "blobs", BlobDigest>>
    /\ reqs[1].pc = "done" /\ reqs[1].status = StatusNotFound

\* The request went through the method check, the probe, the parser and the
\* latest gate.
Dispatched(r) ==
    r.pc # "start" /\ r.outcome \notin {"rejected", "probe", "gated"}

\* C17 (header presence demotes), as claimed: a request that carries the
\* header with any value is never resolved or proxied.
C17_PresenceDemotes ==
    \A i \in Frames :
        LET r == reqs[i] IN
        r.arrived # "" => (r.resolveCalls = 0 /\ r.attempts = <<>> /\ r.handler # "mirror")

\* C17, amended: of the requests that reach the dispatch, exactly those whose
\* header value is the string "true" are served locally; a request with any
\* other value is handled by the mirror proxy like one without the header,
\* after the header has been set to "true".
C17_ExactValueDemotes ==
    \A i \in Frames :
        LET r == reqs[i] IN
        Dispatched(r) =>
            /\ r.arrived = "true" =>
                  (r.handler # "mirror" /\ r.resolveCalls = 0 /\ r.attempts = <<>>)
            /\ r.arrived # "true" =>
                  (r.handler = "mirror" /\ r.resolveCalls = 1 /\ r.header = "true")

\* A request that arrived with the header value "1" has been proxied to a peer.
C17_Witness ==
    /\ reqs[1].arrived = "1"
    /\ reqs[1].pc = "done" /\ reqs[1].outcome = "success"
    /\ reqs[1].attempts = <<"n2">>

RECURSIVE Chains(_, _)
\* For each child the matcher of m accepts, in index order: its digest, its
\* config digest, its layer digests.
Chains(manifests, m) ==
    IF manifests = <<>> THEN <<>>
    ELSE LET c == Head(manifests) IN
         (IF Match(m, c.platform) /\ c.platform.architecture # "unknown"
          THEN <<c.digest, ManifestData(c.digest).config>> \o ManifestData(c.digest).layers
          ELSE <<>>)
         \o Chains(Tail(manifests), m)

RECURSIVE WithoutUnknown(_)
\* The manifests array without the descriptors of unknown architecture.
WithoutUnknown(manifests) ==
    IF manifests = <<>> THEN <<>>
    ELSE (IF Head(manifests).platform.architecture = "unknown" THEN <<>> ELSE <<Head(manifests)>>)
         \o WithoutUnknown(Tail(manifests))

\* The walk runs on the index and with a platform of the tests.
OnFixture == walk.pc # "idle" /\ walk.manifests = FixtureManifests /\ walk.platform.os = "linux"

C18_WitnessRepeated ==
    /\ walk.pc = "done"
    /\ Len(walk.manifests) = 2 /\ walk.manifests[1] = walk.manifests[2]
    /\ Len(walk.result) = 27

\* C19 (attestation skip): a walk never visits a descriptor of unknown
\* architecture, whatever the matcher, and ends as the walk of the same index
\* without those descriptors would: with the same list, or failing because
\* none of the other children matches.
C19_AttestationSkip ==
    walk.pc # "idle" =>
        /\ \A k \in 1..Len(walk.keys), j \in 1..Len(walk.manifests) :
              walk.manifests[j].platform.architecture = "unknown"
                  => walk.keys[k] # walk.manifests[j].digest
        /\ walk.pc = "done" =>
              /\ walk.result = <<walk.root>> \o Chains(WithoutUnknown(walk.manifests), walk.platform)
              /\ \E j \in 1..Len(walk.manifests) :
                    /\ walk.manifests[j].platform.architecture # "unknown"
                    /\ Match(walk.platform, walk.manifests[j].platform)
        /\ walk.pc = "failed" =>
              /\ walk.err = ErrNoMatchingPlatform
              /\ \A j \in 1..Len(walk.manifests) :
                    walk.manifests[j].platform.architecture # "unknown"
                        => ~Match(walk.platform, walk.manifests[j].platform)

\* A walk with the matcher that accepts every platform, on an index that
\* lists an attestation manifest before an image manifest, has returned the
\* image manifest's chain only.
C19_Witness ==
    /\ walk.pc = "done" /\ walk.platform.os = "*"
    /\ Len(walk.manifests) = 2
    /\ walk.manifests[1].platform.architecture = "unknown"
    /\ walk.result[2] = walk.manifests[2].digest
    /\ Len(walk.result) = 14

\* C20 (no matching platform): a walk on an index none of whose children is
\* accepted fails at the index with the error that names the index digest, and
\* returns no list; a walk on any other index does not fail so.
C20_NoMatchingPlatform ==
    LET accepted == { j \in 1..Len(walk.manifests) :
                        /\ walk.manifests[j].platform.architecture # "unknown"
                        /\ Match(walk.platform, walk.manifests[j].platform) }
    IN
    walk.pc \in {"done", "failed"} =>
        IF accepted = {}
        THEN /\ walk.pc = "failed"
             /\ walk.err = ErrNoMatchingPlatform /\ walk.errDigest = walk.root
             /\ walk.result = <<>>
             /\ walk.keys = <<walk.root>>
        ELSE walk.pc = "done" /\ walk.err = ""

\* The walk of the index of the tests for darwin/arm64 has failed, naming the
\* index digest.
C20_Witness ==
    /\ walk.pc = "failed"
    /\ walk.manifests = FixtureManifests
    /\ walk.platform = [os |-> "darwin", architecture |-> "arm64"]
    /\ walk.errDigest = "sha256:e80e"

\* An invocation has left the body copy of a peer's 200 answer before the
\* body was complete.
Underflowed(r) ==
    /\ r.sources # <<>>
    /\ r.pc # "transfer"
    /\ r.body # r.sources[Len(r.sources)].body

\* C24 (body underflow after 200): when a peer has answered 200 and the body
\* copy broke before the end, handleMirror is over for the request: no
\* candidate is received or attempted after that peer, no 404 or 500 is asked
\* for and no error recorded, and the client has status 200 and a proper
\* prefix of the peer's body.
C24_UnderflowIsSuccess ==
    \A i \in Frames :
        LET r == reqs[i]
            src == r.sources[Len(r.sources)]
        IN
        Underflowed(r) =>
            /\ r.pc = "done" /\ r.succeeded
            /\ src.status = StatusOK
            /\ Len(r.attempts) = src.attempt /\ Len(r.taken) = src.taken
            /\ r.status = StatusOK /\ r.written
            /\ \A k \in 1..Len(r.statusSets) : r.statusSets[k] = StatusOK
            /\ r.errors = <<>>
            /\ IsPrefix(r.body, src.body)

\* The body copy of a peer's 200 answer broke while the client was still there
\* and the resolver had a further candidate ready.
C24_Witness ==
    /\ Underflowed(reqs[1]) /\ ~reqs[1].gone
    /\ reqs[1].outcome = "aborted"
    /\ reqs[1].mirrorCh # <<>>
    /\ reqs[1].status = StatusOK /\ reqs[1].body = <<>>

\* The outcomes the claim C25 lists: 200 from a peer, 404 timed out, 500
\* exhausted.
ClaimedOutcome(r) ==
    /\ r.pc = "done"
    /\ \/ r.sources # <<>> /\ r.status = StatusOK /\ r.outcome \in {"success", "aborted"}
       \/ r.outcome = "timeout" /\ r.status = StatusNotFound
       \/ r.outcome = "exhausted" /\ r.status = StatusInternalServerError

\* The outcomes handleMirror has: 200 from a peer; timed out, with 404 or with
\* the 500 already committed for the error of router.Resolve; 500 exhausted;
\* 500 for a candidate url.Parse rejects.
MirrorOutcome(r) ==
    /\ r.pc = "done"
    /\ \/ r.sources # <<>> /\ r.status = StatusOK /\ r.outcome \in {"success", "aborted"}
       \/ /\ r.outcome = "timeout" /\ LastError(r) = [msg |-> ErrTimeout, key |-> r.key]
          /\ r.status = IF r.chNil THEN StatusInternalServerError ELSE StatusNotFound
       \/ /\ r.outcome = "exhausted" /\ LastError(r) = Err(ErrExhausted)
          /\ r.status = StatusInternalServerError
       \/ /\ r.outcome = "parse_error" /\ LastError(r) = Err(ErrUrlParse)
          /\ r.status = StatusInternalServerError

\* C25 (every mirror request terminates), as claimed: every run of
\* handleMirror eventually returns with one of success (200 from a peer),
\* timed out (404) or exhausted (500).
C25_TerminatesThreeWays ==
    (reqs[1].handler = "mirror") ~> ClaimedOutcome(reqs[1])

\* C25, amended: every run of handleMirror eventually returns, whatever the
\* resolver does, with one of: 200 from a peer; timed out; exhausted; 500 for
\* an unparsable candidate.
C25_Terminates ==
    (reqs[1].handler = "mirror") ~> MirrorOutcome(reqs[1])

\* A run of handleMirror whose stream never yielded and never closed has
\* returned through the timeout.
C25_Witness ==
    /\ reqs[1].pc = "done" /\ reqs[1].outcome = "timeout"
    /\ reqs[1].yielded = 0 /\ ~reqs[1].chClosed /\ ~reqs[1].chNil
    /\ reqs[1].status = StatusNotFound

\* C26 (one response status per request), as claimed: the handler asks for a
\* status at most once per request, and once it has asked for an error status
\* no peer response is written into the response.
C26_OneStatus ==
    \A i \in Frames :
        LET r == reqs[i] IN
        /\ Len(r.statusSets) + Len(r.sources) <= 1
        /\ Len(r.errors) <= 1

\* C27 (an unmarked request never touches the local store): a GET/HEAD
\* request that arrives without the mirrored header, parses and passes the
\* latest gate makes exactly one call of router.Resolve, with the digest as key
\* if the path has one and the reference otherwise, and no call on the OCI
\* store, also on a node that holds the content.
C27_UnmarkedSparesStore ==
    \A i \in Frames :
        LET r == reqs[i]
            p == ParsePathComponents(r.ns, r.path)
        IN
        ( /\ r.pc # "start"
          /\ r.method \in {"GET", "HEAD"} /\ r.arrived = ""
          /\ r.path # <<"v2">> /\ ~p.err
          /\ ~LatestGate(resolveLatestTag, p.ref) )
        => /\ r.handler = "mirror"
           /\ r.resolveCalls = 1
           /\ r.key = IF p.dgst # "" THEN <<p.dgst>> ELSE p.ref
           /\ r.storeOps = <<>>

\* An unmarked request for a blob the node itself holds has been answered
\* through the mirror proxy, by a peer, without a call on the node's store.
C27_Witness ==
    /\ reqs[1].node = "n2" /\ reqs[1].arrived = ""
    /\ reqs[1].key = <<BlobDigest>>
    /\ reqs[1].pc = "done" /\ reqs[1].outcome = "success"
    /\ reqs[1].storeOps = <<>> /\ reqs[1].resolveCalls = 1

MirrorLabels(r) ==
    [registry |-> r.ns,
     cacheType |-> IF r.status = StatusOK THEN "hit" ELSE "miss",
     sourceType |-> IF r.host = LocalAddr(r.node) THEN "internal" ELSE "external"]

\* C29 (metrics counter), as claimed: a request in which k candidates were
\* attempted (received from the stream, or handed to a reverse proxy) has
\* incremented the counter k times, and a request that did not reach the
\* mirror proxy has not incremented it.
C29_OncePerAttempt ==
    \A i \in Frames :
        LET r == reqs[i] IN
        /\ (r.pc = "done" /\ r.handler = "mirror" /\ r.outcome # "aborted")
              => Len(r.counted) \in {Len(r.attempts), Len(r.taken)}
        /\ r.handler # "mirror" => r.counted = <<>>

\* C29, amended: the counter is incremented once per request that went to
\* the mirror proxy, when its handler returns, however many candidates were
\* attempted, with the labels (ns, hit if the status is 200 else miss,
\* internal if the Host is the node's own address else external); not before
\* the return, not when the handler is aborted by a broken body copy, and not
\* for a request that did not reach the mirror proxy.
C29_OncePerMirrorRequest ==
    \A i \in Frames :
        LET r == reqs[i] IN
        /\ r.handler # "mirror" => r.counted = <<>>
        /\ r.pc # "done" => r.counted = <<>>
        /\ (r.pc = "done" /\ r.handler = "mirror") =>
              IF r.outcome = "aborted"
              THEN r.counted \in {<<>>, <<MirrorLabels(r)>>}
              ELSE r.counted = <<MirrorLabels(r)>>

\* A request from another address for which two candidates were attempted and
\* failed has been counted once, as an external miss.
C29_Witness ==
    /\ reqs[1].pc = "done" /\ reqs[1].handler = "mirror"
    /\ Len(reqs[1].attempts) = 2
    /\ Len(reqs[1].counted) = 1
    /\ reqs[1].counted[1].cacheType = "miss"
    /\ reqs[1].counted[1].sourceType = "external"

\* The writer has run at least once and the last run returned no error.
Ran == mirrorCfg.pc = "ready" /\ mirrorCfg.runs >= 1 /\ mirrorCfg.err.msg = ""

\* C21 (backup idempotence), as claimed: after a second run with the same
\* input the file tree is the one the first run left, no _backup/_backup
\* exists, and a config path that held no files has no _backup directory.
C21_BackupIdempotence ==
    Ran =>
        /\ mirrorCfg.runs >= 2 => mirrorCfg.files = mirrorCfg.first
        /\ \A f \in mirrorCfg.files : ~Under(f.path, <<"_backup", "_backup">>)
        /\ mirrorCfg.initial = {} => ~HasBackup(mirrorCfg.files)

\* C22 (no user file is lost), as claimed: every file below the config path
\* before a run is, after the run, still at its path or below _backup at the
\* same relative path with the same content.
C22_NoUserFileLost ==
    Ran =>
        \A f \in mirrorCfg.before :
            \/ \E g \in mirrorCfg.files : g.path = f.path
            \/ \E g \in mirrorCfg.files :
                  g.path = <<"_backup">> \o f.path /\ g.content = f.content

\* The tree the tests expect after a run for the registries https://docker.io
\* and http://foo.bar:5000, the mirror http://127.0.0.1:5000 and resolve-tags
\* set, on a config path that held docker.io/hosts.toml and ghcr.io/hosts.toml
\* in the config path or in _backup.
TestExpectedFiles ==
    { File(<<"_backup", "docker.io", "hosts.toml">>, <<"Hello World">>),
      File(<<"_backup", "ghcr.io", "hosts.toml">>, <<"Foo Bar">>),
      File(<<"docker.io", "hosts.toml">>,
           <<"server = '", "https", "://", "registry-1.docker.io", "'", "[host]",
             "[host.'", "http", "://", "127.0.0.1:5000", "']",
             "capabilities = ", "['pull', 'resolve']">>),
      File(<<"foo.bar:5000", "hosts.toml">>,
           <<"server = '", "http", "://", "foo.bar:5000", "'", "[host]",
             "[host.'", "http", "://", "127.0.0.1:5000", "']",
             "capabilities = ", "['pull', 'resolve']">>) }

\* The input of the two tests with files below the config path.
OnTestInput ==
    /\ mirrorCfg.registries = << Url("https", "", "docker.io", "", ""),
                                 Url("http", "", "foo.bar:5000", "", "") >>
    /\ mirrorCfg.mirrors = << Url("http", "", "127.0.0.1:5000", "", "") >>
    /\ mirrorCfg.resolveTags
    /\ mirrorCfg.initial \in
          { { File(<<"docker.io", "hosts.toml">>, <<"Hello World">>),
              File(<<"ghcr.io", "hosts.toml">>, <<"Foo Bar">>) },
            { File(<<"_backup", "docker.io", "hosts.toml">>, <<"Hello World">>),
              File(<<"_backup", "ghcr.io", "hosts.toml">>, <<"Foo Bar">>),
              File(<<"test.txt">>, <<"test">>), File(<<"foo">>, <<"bar">>) } }

\* C22, amended: a file in a directory of the config path before a run that
\* finds no _backup is, after the run, below _backup at the same relative path
\* with the same content; the files below _backup before a run are the files
\* below _backup after it when it was there; a loose file found by a run that
\* finds _backup is gone after the run and not backed up.  On the input of
\* the tests the tree after the first run is the one the tests expect.
C22_DirectoriesBackedUpOnce ==
    Ran =>
        /\ ~HasBackup(mirrorCfg.before) =>
              \A f \in mirrorCfg.before :
                  Len(f.path) > 1 => File(<<"_backup">> \o f.path, f.content) \in mirrorCfg.files
        /\ HasBackup(mirrorCfg.before) =>
              /\ { f \in mirrorCfg.files : Under(f.path, <<"_backup">>) }
                   = { f \in mirrorCfg.before : Under(f.path, <<"_backup">>) }
              /\ \A f \in mirrorCfg.before :
                    Len(f.path) = 1 =>
                        \A g \in mirrorCfg.files :
                            g.path # f.path /\ g.path # <<"_backup">> \o f.path
        /\ (OnTestInput /\ mirrorCfg.runs = 1) => mirrorCfg.files = TestExpectedFiles

\* The first run on a config path that held docker.io/hosts.toml and
\* ghcr.io/hosts.toml has moved both below _backup and written the new
\* docker.io/hosts.toml.
C22_Witness ==
    /\ Ran /\ mirrorCfg.runs = 1 /\ OnTestInput
    /\ ~HasBackup(mirrorCfg.initial)
    /\ File(<<"_backup", "ghcr.io", "hosts.toml">>, <<"Foo Bar">>) \in mirrorCfg.files
    /\ File(<<"docker.io", "hosts.toml">>, <<"Hello World">>) \notin mirrorCfg.files

\* A run that found _backup has removed the loose files test.txt and foo.
C22_WitnessLoose ==
    /\ Ran /\ mirrorCfg.runs = 1 /\ OnTestInput
    /\ HasBackup(mirrorCfg.initial)
    /\ mirrorCfg.files = TestExpectedFiles

\* The registry URL is not one the writer accepts.
InvalidRegistryURL(u) ==
    u.scheme \notin {"http", "https"} \/ u.path # "" \/ u.query # "" \/ u.user # ""

\* C23 (registry URL validation fails fast): a run whose input has an invalid
\* registry URL returns the error for the first such URL, saying what is
\* wrong with it, and leaves the files and the config path directory as they
\* were, whatever valid registries are listed before it; a run whose
\* registry URLs are all valid returns no error.
C23_ValidationFailsFast ==
    LET c == mirrorCfg
        bad == { k \in 1..Len(c.registries) : InvalidRegistryURL(c.registries[k]) }
    IN
    (c.pc = "ready" /\ c.runs >= 1) =>
        IF bad = {} THEN c.err.msg = ""
        ELSE \E k \in bad :
               /\ \A j \in bad : k <= j
               /\ c.err.url = UrlString(c.registries[k])
               /\ c.registries[k].scheme = "ftp" => c.err.msg = ErrScheme
               /\ c.registries[k].path = "/foo/bar" => c.err.msg = ErrPath
               /\ c.registries[k].query = "foo=bar" => c.err.msg = ErrQuery
               /\ c.registries[k].user = "foo" => c.err.msg = ErrUser
               /\ c.err.msg # ""
               /\ c.files = c.before /\ c.files = c.initial
               /\ c.dirExists = c.dirBefore

\* A run with a valid registry listed before https://foo@docker.io, on a
\* config path with user files and no directory of its own yet written, has
\* returned the user-info error and left the files as they were.
C23_Witness ==
    /\ mirrorCfg.pc = "ready" /\ mirrorCfg.runs = 1
    /\ mirrorCfg.registries = << Url("http", "", "foo.bar:5000", "", ""),
                                 Url("https", "foo", "docker.io", "", "") >>
    /\ mirrorCfg.err.msg = ErrUser
    /\ mirrorCfg.err.url = <<"https", "://", "foo", "@", "docker.io">>
    /\ File(<<"docker.io", "hosts.toml">>, <<"Hello World">>) \in mirrorCfg.files
    /\ mirrorCfg.files = mirrorCfg.initial

TypeOK ==
    /\ resolveLatestTag \in BOOLEAN
    /\ Len(reqs) \in 1..MaxDepth
    /\ \A i \in 1..Len(reqs) : reqs[i].pc \in {"start", "select", "proxy", "transfer", "done"}
====
